---------------------------- MODULE Spec2Model ----------------------------
(***************************************************************************)
(* Model of Snippets4Fun/Travel_Globe/travel_globe.py: the frame loop      *)
(* (run), the marker projector (project_point,                             *)
(* update_destination_markers), the map helpers (lonlat_to_mapxy,          *)
(* sample_color, sample_scalar) and the globe renderer (GlobeRenderer).    *)
(*                                                                         *)
(* Numbers are fixed point:                                                *)
(*   angles in radians         unit 1/10000 rad  (TAU = 62832)             *)
(*   angles in degrees         unit 1/100 degree                           *)
(*   sines, cosines, depths    unit 1/ONE                                  *)
(*   cloud_offset              unit 1/CLOUD_ONE                            *)
(*   texture coordinates       unit 1/SUB texel                            *)
(***************************************************************************)
EXTENDS Integers, Sequences, FiniteSets, TLC

VARIABLES
    \* run(): the frame loop's locals
    pc, running, rotation, sun_phase, cloud_offset, selected, hitboxes,
    clock_time, frame,
    \* events handled so far by the current frame's event loop
    polled,
    \* DESTINATIONS[*].screen_pos / surface_depth (module-level mutable state)
    dest_state,
    \* what the left click handled last in this iteration consulted
    consulted,
    \* the rotation the current hitboxes were computed from, and in which frame
    hit_rotation, hit_frame,
    \* the rotation of the frame last presented by display.flip (-1: none yet)
    shown_rotation,
    \* the event handled last in this iteration's event loop and the rotation
    \* it found, and what the last state update added to rotation
    handled, advance

loopVars == <<pc, running, rotation, sun_phase, cloud_offset, selected,
              hitboxes, clock_time, frame, dest_state, consulted,
              hit_rotation, hit_frame, shown_rotation, polled,
              handled, advance>>

VARIABLES
    \* a call project_point(latitude, longitude, rotation) and what it returned
    proj_args, proj_ret,
    \* the calls lonlat_to_mapxy(lon, lat) and lonlat_to_mapxy(lon + 360 k, lat)
    map_args, map_ret,
    \* a call sample_scalar / sample_color (array, x, y) and what it returned
    samp_args, samp_ret

VARIABLES
    \* GlobeRenderer: the radius of the globe (GLOBE_RADIUS), self.pixel_data
    \* and the position of _build_pixel_data's loops
    radius, pixel_data, build_x, build_y

globeVars == <<radius, pixel_data, build_x, build_y>>

VARIABLES
    \* GlobeRenderer: the base-map arrays, self.city_vectors, and where the
    \* renderer is: under construction, ready, or inside a render call
    maps, city_vectors, gpc,
    \* the arguments of the render call in progress or last returned, its
    \* globe_surface, and the number of calls that returned
    render_args, globe_surface, renders,
    \* what the constructor left behind, the first call that returned, and
    \* whether a call with other arguments returned since
    constructed, first_call, other_calls

renderVars == <<maps, city_vectors, gpc, render_args, globe_surface, renders,
                constructed, first_call, other_calls>>

callVars == <<proj_args, proj_ret, map_args, map_ret, samp_args, samp_ret>>

VARIABLES
    \* the arguments of the calls of fractal_noise, what the last call
    \* returned, what the first call returned and how many calls returned
    noise_args, noise_ret, noise_first, noise_calls,
    \* the state of the generator of the global random module, and what it
    \* was when the first call of fractal_noise was made
    global_rng, first_global

noiseVars == <<noise_args, noise_ret, noise_first, noise_calls, global_rng,
               first_global>>

vars == <<loopVars, callVars, globeVars, renderVars, noiseVars>>

---------------------------------------------------------------------------
\* Fixed-point units and program constants

ONE == 1000
ONE2 == ONE * ONE
TAU == 62832
PI == 31416
HALF_PI == PI \div 2
CLOUD_ONE == 100000

MAP_WIDTH == 2048
MAP_HEIGHT == 1024

GLOBE_CENTER == <<500, 400>>
GLOBE_RADIUS == 280

\* per-millisecond steps of run(): 0.0035 rad, 0.0022 rad, 0.00008
ROTATION_STEP == 35
SUN_STEP == 22
CLOUD_STEP == 8

\* Bounds of the model
MaxFrames == 3
MaxEvents == 2
ProjSteps == 12
MapSteps == 24
MaxWraps == 2
TexW == 3
TexH == 3
MaxRadius == 5
MaxRenderRadius == 3
MaxMaps == 2
MaxRenders == 3
MaxNoiseSize == 2
MaxOctaves == 2
MaxNoiseCalls == 2
MarkerSteps == 72

---------------------------------------------------------------------------
\* Arithmetic helpers

Max(a, b) == IF a >= b THEN a ELSE b
Min(a, b) == IF a <= b THEN a ELSE b
Abs(a) == IF a >= 0 THEN a ELSE -a

\* Python's int() on a quotient: truncation toward zero
Trunc(n, d) == IF n >= 0 THEN n \div d ELSE -((-n) \div d)

\* nearest integer to n/d (d > 0)
RoundDiv(n, d) == (2 * n + d) \div (2 * d)

\* texture coordinates are counted in 1/SUB texel
SUB == 1000
SUB2 == SUB * SUB

\* math.radians, from 1/100 degree to 1/10000 rad: PI / 18000 = (PI / 24) / 750
Radians(cdeg) == RoundDiv(cdeg * (PI \div 24), 750)

\* math.sin on [0, PI], scaled by ONE (Bhaskara's rational approximation:
\* exact at 0, PI/6, PI/2, 5 PI/6 and PI, within 0.002 elsewhere)
SinHalf(x) ==
    LET p == x * (PI - x)
        d == ((PI * PI) \div 4) * 5 - p
    IN  (4 * p) \div (d \div ONE)

\* math.sin, scaled by ONE
Sin(a) ==
    LET x == a % TAU
    IN  IF x <= PI THEN SinHalf(x) ELSE -SinHalf(x - PI)

\* math.cos, scaled by ONE
Cos(a) == Sin(a + HALF_PI)

\* math.sqrt on integers: the largest r in lo..hi with r * r <= n
RECURSIVE IsqrtIn(_, _, _)
IsqrtIn(n, lo, hi) ==
    IF lo >= hi THEN lo
    ELSE LET mid == (lo + hi + 1) \div 2
         IN  IF mid * mid <= n THEN IsqrtIn(n, mid, hi)
             ELSE IsqrtIn(n, lo, mid - 1)

Isqrt(n) == IsqrtIn(n, 0, 2 * ONE)

\* the least angle in lo..hi (within [0, PI/2]) whose sine reaches v
RECURSIVE AsinIn(_, _, _)
AsinIn(v, lo, hi) ==
    IF lo >= hi THEN lo
    ELSE LET mid == (lo + hi) \div 2
         IN  IF SinHalf(mid) >= v THEN AsinIn(v, lo, mid)
             ELSE AsinIn(v, mid + 1, hi)

\* math.asin of v / ONE, in [-PI/2, PI/2]
Asin(v) ==
    IF v >= ONE THEN HALF_PI
    ELSE IF v <= -ONE THEN -HALF_PI
    ELSE IF v >= 0 THEN AsinIn(v, 0, HALF_PI)
    ELSE -AsinIn(-v, 0, HALF_PI)

\* math.atan2(a, b) for b >= 0, in [-PI/2, PI/2]: asin(a / hypot(a, b)),
\* and 0 at a = b = 0
Atan2(a, b) ==
    LET hyp == Isqrt(a * a + b * b)
    IN  IF hyp = 0 THEN 0 ELSE Asin(RoundDiv(a * ONE, hyp))

---------------------------------------------------------------------------
\* Destinations (latitude, longitude in 1/100 degree), in dict order

DEST_ORDER == <<"hyderabad", "tokyo", "reykjavik", "cape_town", "cusco",
                "queenstown">>

DEST_KEYS == {DEST_ORDER[i] : i \in 1..Len(DEST_ORDER)}

DESTINATIONS ==
    [k \in DEST_KEYS |->
        CASE k = "hyderabad"  -> [latitude |-> 1739,  longitude |-> 7849]
          [] k = "tokyo"      -> [latitude |-> 3568,  longitude |-> 13965]
          [] k = "reykjavik"  -> [latitude |-> 6415,  longitude |-> -2194]
          [] k = "cape_town"  -> [latitude |-> -3392, longitude |-> 1842]
          [] k = "cusco"      -> [latitude |-> -1353, longitude |-> -7197]
          [] OTHER            -> [latitude |-> -4503, longitude |-> 16866]]

---------------------------------------------------------------------------
\* Marker projection

\* Python's None, and a returned ((screen_x, screen_y), depth)
None == [some |-> FALSE, pos |-> <<0, 0>>, depth |-> 0]
Some(p, d) == [some |-> TRUE, pos |-> p, depth |-> d]

\* z of project_point, scaled by ONE2
ViewZ(latitude, longitude, rot) ==
    Cos(Radians(longitude) + rot) * Cos(Radians(latitude))

\* x of project_point, scaled by ONE2
ViewX(latitude, longitude, rot) ==
    Sin(Radians(longitude) + rot) * Cos(Radians(latitude))

\* y of project_point, scaled by ONE
ViewY(latitude) == Sin(Radians(latitude))

\* project_point that tests z < 0: a point on the limb (z = 0) is returned
project_point_limb(latitude, longitude, rot) ==
    LET x == ViewX(latitude, longitude, rot)
        y == ViewY(latitude)
        z == ViewZ(latitude, longitude, rot)
    IN  IF z < 0
        THEN None
        ELSE Some(<<GLOBE_CENTER[1] + Trunc(GLOBE_RADIUS * x, ONE2),
                    GLOBE_CENTER[2] - Trunc(GLOBE_RADIUS * y, ONE)>>, z)

\* project_point(latitude, longitude, rotation); depth scaled by ONE2
project_point(latitude, longitude, rot) ==
    LET x == ViewX(latitude, longitude, rot)
        y == ViewY(latitude)
        z == ViewZ(latitude, longitude, rot)
    IN  IF z <= 0
        THEN None
        ELSE Some(<<GLOBE_CENTER[1] + Trunc(GLOBE_RADIUS * x, ONE2),
                    GLOBE_CENTER[2] - Trunc(GLOBE_RADIUS * y, ONE)>>, z)

\* pygame.Rect(left, top, width, height)
Rect(l, t, w, h) == [left |-> l, top |-> t, width |-> w, height |-> h]

\* Rect.collidepoint
collidepoint(r, p) ==
    /\ r.left <= p[1] /\ p[1] < r.left + r.width
    /\ r.top <= p[2] /\ p[2] < r.top + r.height

\* size = max(18, int(22 * (0.6 + depth * 0.6)))
MarkerSize(depth) == Max(18, Trunc(132 * (ONE2 + depth), 10 * ONE2))

\* the hit rect update_destination_markers builds for a projection
MarkerRect(proj) ==
    LET size == MarkerSize(proj.depth)
    IN  Rect(proj.pos[1] - size \div 2, proj.pos[2] - size \div 2, size, size)

\* the hitboxes dict with a rect for every destination, the back-facing
\* ones included
MarkerHitboxesOfAll(rot) ==
    LET proj(k) == project_point(DESTINATIONS[k].latitude,
                                 DESTINATIONS[k].longitude, rot)
    IN  [k \in DEST_KEYS |-> MarkerRect(proj(k))]

\* update_destination_markers(rotation): the returned hitboxes dict
MarkerHitboxes(rot) ==
    LET proj(k) == project_point(DESTINATIONS[k].latitude,
                                 DESTINATIONS[k].longitude, rot)
        visible == {k \in DEST_KEYS : proj(k).some}
    IN  [k \in visible |-> MarkerRect(proj(k))]

\* update_destination_markers(rotation): screen_pos / surface_depth it leaves
\* on every destination
MarkerDestState(rot) ==
    [k \in DEST_KEYS |->
        LET proj == project_point(DESTINATIONS[k].latitude,
                                  DESTINATIONS[k].longitude, rot)
        IN  IF proj.some
            THEN [screen_pos |-> Some(proj.pos, 0), surface_depth |-> proj.depth]
            ELSE [screen_pos |-> None, surface_depth |-> 0]]

---------------------------------------------------------------------------
\* The frame loop: run()

\* values clock.get_time() can return (milliseconds between two ticks)
DtValues == {0, 16, 17, 1000, 50000000}

NoEventPos == <<0, 0>>

Event(t, k, b, p) ==
    [type |-> t, key |-> k, button |-> b, pos |-> p, rel |-> 0, buttons |-> FALSE]

\* a MOUSEMOTION event: the pointer moved by dx, with a button held or not
Motion(dx, held) ==
    [Event("MOUSEMOTION", "", 0, NoEventPos) EXCEPT !.rel = dx, !.buttons = held]

\* the pointer movements tried by the model
MotionDeltas == {-3, 0, 5}

RectCenter(r) == <<r.left + r.width \div 2, r.top + r.height \div 2>>

\* pointer positions tried by the model: the centre of every hit region of
\* the frame on screen, of every hit region of the rotation the coming
\* update will produce, and a point of the window outside all of them
ClickPositions ==
    LET next == MarkerHitboxes((rotation + ROTATION_STEP * clock_time) % TAU)
    IN  {RectCenter(hitboxes[k]) : k \in DOMAIN hitboxes}
        \cup {RectCenter(next[k]) : k \in DOMAIN next}
        \cup {NoEventPos}

\* the events pygame.event.get() can deliver
Events ==
    {Event("QUIT", "", 0, NoEventPos),
     Event("KEYDOWN", "ESCAPE", 0, NoEventPos),
     Event("KEYDOWN", "OTHER", 0, NoEventPos)}
    \cup {Motion(dx, held) : dx \in MotionDeltas, held \in BOOLEAN}
    \cup {Event("MOUSEBUTTONDOWN", "", b, p) : b \in {1, 3}, p \in ClickPositions}

\* for key, rect in hitboxes.items(): if rect.collidepoint(pos): ... break
\* (0 when no rect contains pos)
FirstHit(boxes, pos) ==
    LET hits == {i \in 1..Len(DEST_ORDER) :
                    /\ DEST_ORDER[i] \in DOMAIN boxes
                    /\ collidepoint(boxes[DEST_ORDER[i]], pos)}
    IN  IF hits = {} THEN 0 ELSE CHOOSE i \in hits : \A j \in hits : i <= j

\* hitboxes: Dict[str, pygame.Rect] = {}
NoHitboxes == [k \in {} |-> Rect(0, 0, 0, 0)]

NoClick == [clicked |-> FALSE, frame |-> 0, rotation |-> 0, boxes |-> NoHitboxes,
            pos |-> NoEventPos]

\* the body of the event loop with the branch of the left button leaving
\* selected alone
HandleEventNoSelect(st, e) ==
    IF e.type = "QUIT"
    THEN [st EXCEPT !.running = FALSE]
    ELSE IF e.type = "MOUSEBUTTONDOWN" /\ e.button = 1
    THEN [st EXCEPT !.consulted = [clicked |-> TRUE, frame |-> frame,
                                   rotation |-> rotation,
                                   boxes |-> hitboxes, pos |-> e.pos]]
    ELSE IF e.type = "KEYDOWN" /\ e.key = "ESCAPE"
    THEN [st EXCEPT !.running = FALSE]
    ELSE st

\* no event handled yet, no state update made yet
NoEvent == [seen |-> FALSE, type |-> "", key |-> "", button |-> 0, rel |-> 0,
            buttons |-> FALSE,
            rotation_before |-> 0]

NoAdvance == [dt |-> -1, by |-> 0]

\* the body of the event loop with the hit regions searched on a press of
\* any button
HandleEventAnyButton(st, e) ==
    IF e.type = "QUIT"
    THEN [st EXCEPT !.running = FALSE]
    ELSE IF e.type = "MOUSEBUTTONDOWN"
    THEN LET h == FirstHit(hitboxes, e.pos)
         IN  [st EXCEPT !.selected = IF h = 0 THEN @ ELSE DEST_ORDER[h],
                        !.consulted = [clicked |-> TRUE, frame |-> frame,
                                       rotation |-> rotation,
                                       boxes |-> hitboxes, pos |-> e.pos]]
    ELSE IF e.type = "KEYDOWN" /\ e.key = "ESCAPE"
    THEN [st EXCEPT !.running = FALSE]
    ELSE st

\* one pass of the body of "for event in pygame.event.get()"
HandleEvent(st, e) ==
    IF e.type = "QUIT"
    THEN [st EXCEPT !.running = FALSE]
    ELSE IF e.type = "MOUSEBUTTONDOWN" /\ e.button = 1
    THEN LET h == FirstHit(hitboxes, e.pos)
         IN  [st EXCEPT !.selected = IF h = 0 THEN @ ELSE DEST_ORDER[h],
                        !.consulted = [clicked |-> TRUE, frame |-> frame,
                                       rotation |-> rotation,
                                       boxes |-> hitboxes, pos |-> e.pos]]
    ELSE IF e.type = "KEYDOWN" /\ e.key = "ESCAPE"
    THEN [st EXCEPT !.running = FALSE]
    ELSE st

\* lines 1070-1080: one iteration of "for event in pygame.event.get()"
PollEvent ==
    /\ pc = "poll"
    /\ polled < MaxEvents
    /\ \E e \in Events :
          LET st == HandleEvent([running |-> running, selected |-> selected,
                                 consulted |-> consulted], e)
          IN  /\ running' = st.running
              /\ selected' = st.selected
              /\ consulted' = st.consulted
              /\ handled' = [seen |-> TRUE, type |-> e.type, key |-> e.key,
                             button |-> e.button,
                             rel |-> e.rel, buttons |-> e.buttons,
                             rotation_before |-> rotation]
    /\ polled' = polled + 1
    /\ UNCHANGED advance
    /\ UNCHANGED <<pc, rotation, sun_phase, cloud_offset, hitboxes, clock_time,
                   frame, dest_state, hit_rotation, hit_frame, shown_rotation>>

\* the event queue is exhausted: the for loop of line 1070 ends
EndPoll ==
    /\ pc = "poll"
    /\ pc' = "update"
    /\ polled' = 0
    /\ UNCHANGED <<running, rotation, sun_phase, cloud_offset, selected,
                   hitboxes, clock_time, frame, dest_state, consulted,
                   hit_rotation, hit_frame, shown_rotation>>
    /\ UNCHANGED <<handled, advance>>

\* UpdateState with the wrap of cloud_offset and sun_phase left out
UpdateStateNoWrap ==
    /\ pc = "update"
    /\ rotation' = (rotation + ROTATION_STEP * clock_time) % TAU
    /\ sun_phase' = sun_phase + SUN_STEP * clock_time
    /\ cloud_offset' = cloud_offset + CLOUD_STEP * clock_time
    /\ pc' = "markers"
    /\ UNCHANGED <<polled, running, selected, hitboxes, clock_time, frame,
                   dest_state, hit_rotation, hit_frame, shown_rotation>>
    /\ advance' = [dt |-> clock_time, by |-> ROTATION_STEP * clock_time]
    /\ UNCHANGED consulted
    /\ handled' = NoEvent

\* lines 1082-1084: advance rotation, sun phase and cloud offset
UpdateState ==
    /\ pc = "update"
    /\ rotation' = (rotation + ROTATION_STEP * clock_time) % TAU
    /\ sun_phase' = (sun_phase + SUN_STEP * clock_time) % TAU
    /\ cloud_offset' = (cloud_offset + CLOUD_STEP * clock_time) % CLOUD_ONE
    /\ pc' = "markers"
    /\ UNCHANGED <<polled, running, selected, hitboxes, clock_time, frame, dest_state,
                   hit_rotation, hit_frame, shown_rotation>>
    /\ advance' = [dt |-> clock_time, by |-> ROTATION_STEP * clock_time]
    /\ UNCHANGED consulted
    /\ handled' = NoEvent

\* UpdateMarkers that fills the previous dict instead of a fresh one: the
\* regions of destinations that turned back-facing survive
UpdateMarkersKeepingOld ==
    /\ pc = "markers"
    /\ hitboxes' = [k \in DOMAIN hitboxes \cup DOMAIN MarkerHitboxes(rotation) |->
                        IF k \in DOMAIN MarkerHitboxes(rotation)
                        THEN MarkerHitboxes(rotation)[k] ELSE hitboxes[k]]
    /\ dest_state' = MarkerDestState(rotation)
    /\ hit_rotation' = rotation
    /\ hit_frame' = frame
    /\ pc' = "draw"
    /\ UNCHANGED <<polled, running, rotation, sun_phase, cloud_offset, selected,
                   clock_time, frame, consulted, shown_rotation>>
    /\ UNCHANGED <<handled, advance>>

\* line 1086: hitboxes = update_destination_markers(rotation)
UpdateMarkers ==
    /\ pc = "markers"
    /\ hitboxes' = MarkerHitboxes(rotation)
    /\ dest_state' = MarkerDestState(rotation)
    /\ hit_rotation' = rotation
    /\ hit_frame' = frame
    /\ pc' = "draw"
    /\ UNCHANGED <<polled, running, rotation, sun_phase, cloud_offset, selected,
                   clock_time, frame, consulted, shown_rotation>>
    /\ UNCHANGED <<handled, advance>>

\* lines 1088-1099: draw the frame (renderer.render with the updated
\* rotation) and present it
DrawFrame ==
    /\ pc = "draw"
    /\ shown_rotation' = rotation
    /\ pc' = "tick"
    /\ UNCHANGED <<polled, running, rotation, sun_phase, cloud_offset, selected,
                   hitboxes, clock_time, frame, dest_state, consulted,
                   hit_rotation, hit_frame>>
    /\ UNCHANGED <<handled, advance>>

\* a tick after which the loop goes on whatever running is
ClockTickIgnoringRunning ==
    /\ pc = "tick"
    /\ \E dt \in DtValues : clock_time' = dt
    /\ frame < MaxFrames
    /\ frame' = frame + 1
    /\ pc' = "poll"
    /\ consulted' = NoClick
    /\ UNCHANGED <<polled, running, rotation, sun_phase, cloud_offset, selected,
                   hitboxes, dest_state, hit_rotation, hit_frame,
                   shown_rotation>>
    /\ UNCHANGED <<handled, advance>>

\* a tick after which the loop body resumes at the state update
ClockTickSkippingPoll ==
    /\ pc = "tick"
    /\ \E dt \in DtValues : clock_time' = dt
    /\ IF running
       THEN /\ frame < MaxFrames
            /\ frame' = frame + 1
            /\ pc' = "update"
       ELSE /\ frame' = frame
            /\ pc' = "quit"
    /\ consulted' = NoClick
    /\ UNCHANGED <<polled, running, rotation, sun_phase, cloud_offset, selected,
                   hitboxes, dest_state, hit_rotation, hit_frame,
                   shown_rotation>>
    /\ UNCHANGED <<handled, advance>>

\* line 1100 and the loop test of line 1069
ClockTick ==
    /\ pc = "tick"
    /\ \E dt \in DtValues : clock_time' = dt
    /\ IF running
       THEN /\ frame < MaxFrames
            /\ frame' = frame + 1
            /\ pc' = "poll"
       ELSE /\ frame' = frame
            /\ pc' = "quit"
    /\ consulted' = NoClick
    /\ UNCHANGED <<polled, running, rotation, sun_phase, cloud_offset, selected,
                   hitboxes, dest_state, hit_rotation, hit_frame,
                   shown_rotation>>
    /\ UNCHANGED <<handled, advance>>

\* line 1102: pygame.quit()
Quit ==
    /\ pc = "quit"
    /\ pc' = "done"
    /\ UNCHANGED <<polled, running, rotation, sun_phase, cloud_offset, selected,
                   hitboxes, clock_time, frame, dest_state, consulted,
                   hit_rotation, hit_frame, shown_rotation>>
    /\ UNCHANGED <<handled, advance>>

\* lines 1062-1068 (clock.get_time() is 0 before the first tick)
LoopInit ==
    /\ pc = "poll"
    /\ running = TRUE
    /\ rotation = 0
    /\ sun_phase = 0
    /\ cloud_offset = 0
    /\ selected = "hyderabad"
    /\ hitboxes = NoHitboxes
    /\ clock_time = 0
    /\ frame = 1
    /\ dest_state = [k \in DEST_KEYS |-> [screen_pos |-> None, surface_depth |-> 0]]
    /\ consulted = NoClick
    /\ hit_rotation = -1
    /\ hit_frame = 0
    /\ shown_rotation = -1
    /\ polled = 0
    /\ handled = NoEvent
    /\ advance = NoAdvance

\* no call in progress
NotCalled == [called |-> FALSE]

CallsIdle ==
    /\ proj_args = <<>> /\ proj_ret = NotCalled
    /\ map_args = <<>> /\ map_ret = NotCalled
    /\ samp_args = <<>> /\ samp_ret = NotCalled

\* no renderer under construction
GlobeIdle ==
    /\ radius = 0 /\ pixel_data = <<>> /\ build_x = 0 /\ build_y = 0

\* no call of render: no surface, no arguments
NoSurface == [p \in {} |-> 0]

NoCall == [set |-> FALSE, args |-> <<>>, surface |-> NoSurface]

NoMaps == [map_pixels |-> <<>>, land_alpha |-> <<>>, elevation_map |-> <<>>,
           ocean_variation |-> <<>>, cloud_alpha |-> <<>>]

RenderIdle ==
    /\ maps = NoMaps /\ city_vectors = <<>> /\ gpc = "none"
    /\ render_args = <<>> /\ globe_surface = NoSurface /\ renders = 0
    /\ constructed = <<>> /\ first_call = NoCall /\ other_calls = FALSE

\* no call of fractal_noise
NoNoise == [called |-> FALSE, field |-> <<>>, divided |-> FALSE]

NoiseIdle ==
    /\ noise_args = <<>> /\ noise_ret = NoNoise /\ noise_first = NoNoise
    /\ noise_calls = 0 /\ global_rng = 0 /\ first_global = 0

Init == LoopInit /\ CallsIdle /\ GlobeIdle /\ RenderIdle /\ NoiseIdle

Next ==
    /\ \/ PollEvent
       \/ EndPoll
       \/ UpdateState
       \/ UpdateMarkers
       \/ DrawFrame
       \/ ClockTick
       \/ Quit
    /\ UNCHANGED callVars
    /\ UNCHANGED globeVars
    /\ UNCHANGED renderVars
    /\ UNCHANGED noiseVars

Spec == Init /\ [][Next]_vars

\* the control flow of run(): where each step of the loop body leaves the
\* program (the guard and the change of pc of EndPoll, UpdateState,
\* UpdateMarkers, DrawFrame, ClockTick and Quit, in this order)
LoopAdvance ==
    \/ pc = "poll" /\ pc' = "update"
    \/ pc = "update" /\ pc' = "markers"
    \/ pc = "markers" /\ pc' = "draw"
    \/ pc = "draw" /\ pc' = "tick"
    \/ pc = "tick" /\ running /\ frame < MaxFrames /\ pc' = "poll"
    \/ pc = "tick" /\ ~running /\ pc' = "quit"
    \/ pc = "quit" /\ pc' = "done"

\* run() is one sequential thread: pygame.event.get() returns a finite list,
\* so the for loop ends, and every later statement of the body returns
SpecFair == Spec /\ WF_pc(LoopAdvance)

---------------------------------------------------------------------------
\* project_point called on its own, on a grid of arguments

LatInputs == {-9000, -6415, -4500, -3000, 0, 1739, 3000, 6000, 9000}
LonInputs == {1500 * k : k \in -ProjSteps..ProjSteps}
RotInputs == {Radians(1500 * k) % TAU : k \in 0..(2 * ProjSteps - 1)}
                \cup {ROTATION_STEP * 16}

CallProjectPoint ==
    /\ ~proj_ret.called
    /\ proj_ret' = [called |-> TRUE,
                    value |-> project_point(proj_args.latitude,
                                            proj_args.longitude,
                                            proj_args.rotation)]
    /\ UNCHANGED <<proj_args, map_args, map_ret, samp_args, samp_ret>>
    /\ UNCHANGED <<loopVars, globeVars, renderVars, noiseVars>>

InitProject ==
    /\ LoopInit /\ GlobeIdle /\ RenderIdle /\ NoiseIdle
    /\ proj_args \in [latitude : LatInputs, longitude : LonInputs,
                       rotation : RotInputs]
    /\ proj_ret = NotCalled
    /\ map_args = <<>> /\ map_ret = NotCalled
    /\ samp_args = <<>> /\ samp_ret = NotCalled

SpecProject == InitProject /\ [][CallProjectPoint]_vars

---------------------------------------------------------------------------
\* lonlat_to_mapxy (longitude and latitude in 1/100 degree)

lonlat_to_mapxy(lon, lat) ==
    LET xnum == (lon + 18000) * MAP_WIDTH
        ynum == (9000 - lat) * MAP_HEIGHT
    IN  <<Trunc(xnum, 36000) % MAP_WIDTH,
          Max(0, Min(MAP_HEIGHT - 1, Trunc(ynum, 18000)))>>

MapLonInputs == {-18000 + 1490 * j : j \in 0..MapSteps}
MapLatInputs == {-9000, -4500, -10, 0, 4500, 8990, 9000}

CallLonLatToMapXY ==
    /\ ~map_ret.called
    /\ map_ret' = [called |-> TRUE,
                   cell |-> lonlat_to_mapxy(map_args.lon, map_args.lat),
                   wrapped |-> lonlat_to_mapxy(map_args.lon + 36000 * map_args.k,
                                               map_args.lat)]
    /\ UNCHANGED <<proj_args, proj_ret, map_args, samp_args, samp_ret>>
    /\ UNCHANGED <<loopVars, globeVars, renderVars, noiseVars>>

InitMapXY ==
    /\ LoopInit /\ GlobeIdle /\ RenderIdle /\ NoiseIdle
    /\ map_args \in [lon : MapLonInputs, lat : MapLatInputs,
                      k : -MaxWraps..MaxWraps]
    /\ map_ret = NotCalled
    /\ proj_args = <<>> /\ proj_ret = NotCalled
    /\ samp_args = <<>> /\ samp_ret = NotCalled

SpecMapXY == InitMapXY /\ [][CallLonLatToMapXY]_vars

---------------------------------------------------------------------------
\* sample_color / sample_scalar (x, y in 1/SUB texel; results scaled by SUB2)

\* the taps with the right neighbour clamped to the last column
SampleTapsClamped(width, height, x, y) ==
    LET xw == x % (width * SUB)
        yc == Max(0, Min((height - 1) * SUB - 1, y))
        x0 == xw \div SUB
        y0 == yc \div SUB
    IN  [x0 |-> x0, y0 |-> y0,
         x1 |-> Min(width - 1, x0 + 1),
         y1 |-> Min(height - 1, y0 + 1),
         tx |-> xw - x0 * SUB,
         ty |-> yc - y0 * SUB]

\* the texel indices and weights both samplers compute (lines 635-643)
SampleTaps(width, height, x, y) ==
    LET xw == x % (width * SUB)
        yc == Max(0, Min((height - 1) * SUB - 1, y))
        x0 == xw \div SUB
        y0 == yc \div SUB
    IN  [x0 |-> x0, y0 |-> y0,
         x1 |-> (x0 + 1) % width,
         y1 |-> Min(height - 1, y0 + 1),
         tx |-> xw - x0 * SUB,
         ty |-> yc - y0 * SUB]

\* top * (1 - ty) + bottom * ty of lines 650-652 and 670-672
Bilinear(v00, v10, v01, v11, tx, ty) ==
    (v00 * (SUB - tx) + v10 * tx) * (SUB - ty)
        + (v01 * (SUB - tx) + v11 * tx) * ty

\* sample_scalar(array, x, y), array a function on (0..width-1) \X (0..height-1)
sample_scalar(array, width, height, x, y) ==
    LET t == SampleTaps(width, height, x, y)
    IN  Bilinear(array[<<t.x0, t.y0>>], array[<<t.x1, t.y0>>],
                 array[<<t.x0, t.y1>>], array[<<t.x1, t.y1>>], t.tx, t.ty)

\* sample_color(array, x, y), every texel an RGB triple
sample_color(array, width, height, x, y) ==
    LET t == SampleTaps(width, height, x, y)
    IN  [c \in 1..3 |->
            Bilinear(array[<<t.x0, t.y0>>][c], array[<<t.x1, t.y0>>][c],
                     array[<<t.x0, t.y1>>][c], array[<<t.x1, t.y1>>][c],
                     t.tx, t.ty)]

TexCells == (0..(TexW - 1)) \X (0..(TexH - 1))

\* The arrays sampled by the model: one lit texel on a dark texture.  Both
\* samplers are linear in the array, so these arrays expose the weight
\* every texel gets.
ImpulseScalar(cell) == [c \in TexCells |-> IF c = cell THEN 1 ELSE 0]
ImpulseColor(cell) ==
    [c \in TexCells |-> IF c = cell THEN <<1, 2, 3>> ELSE <<0, 0, 0>>]

\* The arrays with one lit column: what they return is the weight the
\* column gets.
ColumnScalar(col) == [c \in TexCells |-> IF c[1] = col THEN 1 ELSE 0]

ColumnColor(col) == [c \in TexCells |-> IF c[1] = col THEN <<1, 1, 1>> ELSE <<0, 0, 0>>]

SampleXInputs == {(SUB \div 2) * j : j \in -2..(2 * TexW + 2)}
SampleYInputs == {(SUB \div 2) * j : j \in -2..(2 * TexH)}

CallSample ==
    /\ ~samp_ret.called
    /\ samp_ret' = [called |-> TRUE,
                    scalar |-> sample_scalar(ImpulseScalar(samp_args.cell),
                                             TexW, TexH, samp_args.x, samp_args.y),
                    color |-> sample_color(ImpulseColor(samp_args.cell),
                                           TexW, TexH, samp_args.x, samp_args.y),
                    column_scalar |->
                        sample_scalar(ColumnScalar(samp_args.cell[1]),
                                      TexW, TexH, samp_args.x, samp_args.y),
                    column_color |->
                        sample_color(ColumnColor(samp_args.cell[1]),
                                     TexW, TexH, samp_args.x, samp_args.y),
                    scalar_shifted |->
                        sample_scalar(ImpulseScalar(samp_args.cell), TexW, TexH,
                                      samp_args.x + TexW * SUB, samp_args.y),
                    color_shifted |->
                        sample_color(ImpulseColor(samp_args.cell), TexW, TexH,
                                     samp_args.x + TexW * SUB, samp_args.y)]
    /\ UNCHANGED <<proj_args, proj_ret, map_args, map_ret, samp_args>>
    /\ UNCHANGED <<loopVars, globeVars, renderVars, noiseVars>>

InitSample ==
    /\ LoopInit /\ GlobeIdle /\ RenderIdle /\ NoiseIdle
    /\ samp_args \in [cell : TexCells, x : SampleXInputs, y : SampleYInputs]
    /\ samp_ret = NotCalled
    /\ proj_args = <<>> /\ proj_ret = NotCalled
    /\ map_args = <<>> /\ map_ret = NotCalled

SpecSample == InitSample /\ [][CallSample]_vars

\* One call update_destination_markers(rotation) for any rotation in
\* [0, 2 pi), whatever run() did before it.
MarkerRotations == {(k * TAU) \div MarkerSteps : k \in 0..(MarkerSteps - 1)}

InitMarkers ==
    /\ CallsIdle /\ GlobeIdle /\ RenderIdle /\ NoiseIdle
    /\ pc = "markers"
    /\ running = TRUE
    /\ rotation \in MarkerRotations
    /\ sun_phase = 0
    /\ cloud_offset = 0
    /\ selected = "hyderabad"
    /\ hitboxes = NoHitboxes
    /\ clock_time = 0
    /\ frame = 1
    /\ dest_state = [k \in DEST_KEYS |-> [screen_pos |-> None, surface_depth |-> 0]]
    /\ consulted = NoClick
    /\ hit_rotation = -1
    /\ hit_frame = 0
    /\ shown_rotation = -1
    /\ polled = 0
    /\ handled = NoEvent
    /\ advance = NoAdvance

NextMarkers ==
    /\ UpdateMarkers
    /\ UNCHANGED <<callVars, globeVars, renderVars, noiseVars>>

SpecMarkers == InitMarkers /\ [][NextMarkers]_vars

---------------------------------------------------------------------------
\* GlobeRenderer._build_pixel_data, one pixel of the bounding square a step.
\* The radius is GLOBE_RADIUS in the program; the model builds the table for
\* every radius up to MaxRadius.

\* the entry of the pixel (x, y), stored one column to the right
PixelEntryShifted(r, x, y) ==
    LET dx == x - r
        dy == y - r
        nx == RoundDiv(dx * ONE, r)
        ny == RoundDiv(-dy * ONE, r)
        nz == Isqrt(Max(0, ONE2 - nx * nx - ny * ny))
    IN  [px |-> x + 1, py |-> y, lat |-> Asin(ny), lon0 |-> Atan2(nx, nz),
         normal |-> <<nx, ny, nz>>]

\* lines 487-492: the entry appended for the pixel (x, y) of a disc of radius r
PixelEntry(r, x, y) ==
    LET dx == x - r
        dy == y - r
        nx == RoundDiv(dx * ONE, r)
        ny == RoundDiv(-dy * ONE, r)
        nz == Isqrt(Max(0, ONE2 - nx * nx - ny * ny))
    IN  [px |-> x, py |-> y, lat |-> Asin(ny), lon0 |-> Atan2(nx, nz),
         normal |-> <<nx, ny, nz>>]

\* line 486: the pixel lies in the disc
InDisc(r, x, y) == (x - r) * (x - r) + (y - r) * (y - r) <= r * r

\* InDisc with a strict comparison
InDiscStrict(r, x, y) == (x - r) * (x - r) + (y - r) * (y - r) < r * r

\* the test of line 486 as the loop applies it
DiscTest(r, x, y) == InDisc(r, x, y)

\* lines 481-492: one iteration of the inner loop, at (build_x, build_y)
BuildPixel ==
    /\ build_y < 2 * radius
    /\ pixel_data' = IF DiscTest(radius, build_x, build_y)
                     THEN Append(pixel_data, PixelEntry(radius, build_x, build_y))
                     ELSE pixel_data
    /\ IF build_x + 1 < 2 * radius
       THEN /\ build_x' = build_x + 1
            /\ build_y' = build_y
       ELSE /\ build_x' = 0
            /\ build_y' = build_y + 1
    /\ UNCHANGED radius
    /\ UNCHANGED <<loopVars, callVars, renderVars, noiseVars>>

\* _build_pixel_data has returned
Built == build_y >= 2 * radius

InitPixelData ==
    /\ LoopInit /\ CallsIdle /\ RenderIdle /\ NoiseIdle
    /\ radius \in 1..MaxRadius
    /\ pixel_data = <<>>
    /\ build_x = 0
    /\ build_y = 0

SpecPixelData == InitPixelData /\ [][BuildPixel]_vars

---------------------------------------------------------------------------
\* GlobeRenderer: the base maps, the city vectors and the per-pixel pass of
\* render().  The model's base maps are TexW x TexH arrays (MAP_WIDTH x
\* MAP_HEIGHT in the program); a texel of land_alpha is 0 or 1, a texel of
\* cloud_alpha counts 1/255, a texel of elevation_map and ocean_variation
\* counts 1/ONE, a texel of map_pixels is an RGB triple.

\* The base maps the constructor may have generated (lines 451-465): the
\* generators draw noise and random blobs, so the model takes the arrays
\* from a family indexed by t.
BaseMaps(t) ==
    [map_pixels |->
        [c \in TexCells |-> <<(40 * c[1] + 10 * t) % 256,
                              (60 * c[2] + 20 * t) % 256,
                              (128 + 30 * (c[1] + c[2])) % 256>>],
     land_alpha |-> [c \in TexCells |-> IF (c[1] + c[2] + t) % 2 = 0 THEN 1 ELSE 0],
     elevation_map |-> [c \in TexCells |-> (300 * c[1] + 170 * c[2] + 90 * t) % (ONE + 1)],
     ocean_variation |-> [c \in TexCells |-> (450 * c[1] + 210 * c[2] + 130 * t) % (ONE + 1)],
     cloud_alpha |-> [c \in TexCells |-> IF (c[1] + 2 * c[2] + t) % 3 = 0 THEN 0
                                          ELSE (90 * c[1] + 50 * c[2] + 35 * t) % 256]]

\* CITY_LIGHTS: latitude, longitude (1/100 degree), intensity (1/10)
CITY_LIGHTS ==
    << <<3568, 13965, 10>>, <<3757, 12698, 8>>, <<135, 10382, 9>>,
       <<-3387, 15121, 7>>, <<2520, 5527, 10>>, <<4886, 235, 9>>,
       <<5151, -13, 9>>, <<4071, -7401, 10>>, <<3405, -11824, 8>>,
       <<1943, -9913, 7>>, <<-2355, -4663, 7>>, <<-3460, -5838, 6>>,
       <<-2620, 2805, 6>>, <<3004, 3124, 7>> >>

\* spherical_to_cartesian(lat, lon), angles in 1/10000 rad, result scaled by ONE
spherical_to_cartesian(lat, lon) ==
    <<RoundDiv(Sin(lon) * Cos(lat), ONE),
      Sin(lat),
      RoundDiv(Cos(lon) * Cos(lat), ONE)>>

\* lines 470-477: self.city_vectors
CityVectors ==
    [i \in 1..Len(CITY_LIGHTS) |->
        [vec |-> spherical_to_cartesian(Radians(CITY_LIGHTS[i][1]),
                                        Radians(CITY_LIGHTS[i][2])),
         intensity |-> CITY_LIGHTS[i][3]]]

\* lines 500-502: sun_dir
SunDir(rot, sun) ==
    LET sun_lat == RoundDiv(Radians(1800) * Sin(RoundDiv(sun, 2)), ONE)
        sun_lon == sun + RoundDiv(rot * 3, 10)
    IN  spherical_to_cartesian(sun_lat, sun_lon)

\* lines 507-509: map_x, map_y of a table entry (1/SUB texel)
MapX(entry, rot, width) ==
    ((2 * (entry.lon0 + rot) + TAU) * width * SUB) \div (2 * TAU)

MapY(entry, height) ==
    ((PI - 2 * entry.lat) * height * SUB) \div (2 * PI)

\* line 515: cloud_sample_x
CloudSampleX(map_x, cloud, width) ==
    map_x + (cloud * width * SUB) \div CLOUD_ONE

\* line 519: sunlight, scaled by ONE2
Sunlight(normal, sun_dir) ==
    Max(-ONE2, Min(ONE2, normal[1] * sun_dir[1] + normal[2] * sun_dir[2]
                             + normal[3] * sun_dir[3]))

\* line 538: the alignment of a normal with every city vector, scaled by ONE2
CityAlignments(normal, cities) ==
    [i \in 1..Len(cities) |->
        Max(0, normal[1] * cities[i].vec[1] + normal[2] * cities[i].vec[2]
                 + normal[3] * cities[i].vec[3])]

\* a pixel no render has written: transparent black
BlankPixel ==
    [alpha |-> 0, base |-> <<0, 0, 0>>, land |-> FALSE, relief |-> 0,
     sunlight |-> 0, cloud |-> 0, cities |-> <<>>, terms |-> {},
     halo |-> <<0, 0, 0, 0>>]

\* the pixel written for one table entry, the specular term added on land too
ShadePixelGlintOnLand(entry, rot, sun, cloud, textures, cities) ==
    LET map_x == MapX(entry, rot, TexW)
        map_y == MapY(entry, TexH)
        land == sample_scalar(textures.land_alpha, TexW, TexH, map_x, map_y) * 10 > SUB2
        elevation == sample_scalar(textures.elevation_map, TexW, TexH, map_x, map_y)
        ocean_detail == sample_scalar(textures.ocean_variation, TexW, TexH, map_x, map_y)
        cloud_alpha == sample_scalar(textures.cloud_alpha, TexW, TexH,
                                     CloudSampleX(map_x, cloud, TexW), map_y)
        sunlight == Sunlight(entry.normal, SunDir(rot, sun))
        clouded == cloud_alpha > (51 * SUB2) \div 11
        aurora == /\ 5 * sunlight < -ONE2
                  /\ Abs(entry.lat) * 18000 > 5500 * PI
    IN  [alpha |-> 255,
         base |-> sample_color(textures.map_pixels, TexW, TexH, map_x, map_y),
         land |-> land,
         relief |-> IF land THEN elevation ELSE ocean_detail,
         sunlight |-> sunlight,
         cloud |-> IF clouded THEN cloud_alpha ELSE 0,
         cities |-> IF land /\ sunlight < 0
                    THEN CityAlignments(entry.normal, cities) ELSE <<>>,
         terms |-> (IF land
                    THEN {"relief", "golden"}
                            \cup (IF sunlight > 0 THEN {"specular"} ELSE {})
                            \cup (IF sunlight < 0 THEN {"night", "city_glow"}
                                                  ELSE {"dusk"})
                    ELSE {"ocean"}
                            \cup (IF sunlight < 0 THEN {"ocean_night"} ELSE {})
                            \cup (IF sunlight > 0 THEN {"specular"} ELSE {}))
                   \cup (IF aurora THEN {"aurora"} ELSE {})
                   \cup (IF clouded THEN {"cloud"} ELSE {})
                   \cup {"atmosphere", "gloss"},
         halo |-> <<0, 0, 0, 0>>]

\* lines 507-587: the pixel written for one table entry.  The colour is
\* kept as the values the colour arithmetic of lines 523-585 reads and the
\* set of terms it adds; the float products and powers are not expanded.
ShadePixel(entry, rot, sun, cloud, textures, cities) ==
    LET map_x == MapX(entry, rot, TexW)
        map_y == MapY(entry, TexH)
        land == sample_scalar(textures.land_alpha, TexW, TexH, map_x, map_y) * 10 > SUB2
        elevation == sample_scalar(textures.elevation_map, TexW, TexH, map_x, map_y)
        ocean_detail == sample_scalar(textures.ocean_variation, TexW, TexH, map_x, map_y)
        cloud_alpha == sample_scalar(textures.cloud_alpha, TexW, TexH,
                                     CloudSampleX(map_x, cloud, TexW), map_y)
        sunlight == Sunlight(entry.normal, SunDir(rot, sun))
        clouded == cloud_alpha > (51 * SUB2) \div 11
        aurora == /\ 5 * sunlight < -ONE2
                  /\ Abs(entry.lat) * 18000 > 5500 * PI
    IN  [alpha |-> 255,
         base |-> sample_color(textures.map_pixels, TexW, TexH, map_x, map_y),
         land |-> land,
         relief |-> IF land THEN elevation ELSE ocean_detail,
         sunlight |-> sunlight,
         cloud |-> IF clouded THEN cloud_alpha ELSE 0,
         cities |-> IF land /\ sunlight < 0
                    THEN CityAlignments(entry.normal, cities) ELSE <<>>,
         terms |-> (IF land
                    THEN {"relief", "golden"}
                            \cup (IF sunlight < 0 THEN {"night", "city_glow"}
                                                  ELSE {"dusk"})
                    ELSE {"ocean"}
                            \cup (IF sunlight < 0 THEN {"ocean_night"} ELSE {})
                            \cup (IF sunlight > 0 THEN {"specular"} ELSE {}))
                   \cup (IF aurora THEN {"aurora"} ELSE {})
                   \cup (IF clouded THEN {"cloud"} ELSE {})
                   \cup {"atmosphere", "gloss"},
         halo |-> <<0, 0, 0, 0>>]

\* the pixels of a globe surface of radius r
SurfacePixels(r) == (0..(2 * r - 1)) \X (0..(2 * r - 1))

\* lines 495-590: the surface after the per-pixel pass
ShadedSurface(r, table, rot, sun, cloud, textures, cities) ==
    LET written == [i \in 1..Len(table) |-> <<table[i].px, table[i].py>>]
        index(p) == CHOOSE i \in 1..Len(table) : written[i] = p
        hit == {written[i] : i \in 1..Len(table)}
    IN  [p \in SurfacePixels(r) |->
            IF p \in hit
            THEN ShadePixel(table[index(p)], rot, sun, cloud, textures, cities)
            ELSE BlankPixel]

---------------------------------------------------------------------------
\* The post-passes of render(): _apply_atmosphere and
\* _apply_longitude_highlights.  Every overlay is blitted with
\* BLEND_RGBA_ADD; the model follows the alpha channel of every overlay and
\* records it in the pixel's halo <<bloom, glow, rim, beams>>.

\* BLEND_RGBA_ADD on one channel: the sum, wrapping at 256
AddAlphaWrapping(a, b) == (a + b) % 256

\* BLEND_RGBA_ADD on one channel: the sum, saturating at 255
AddAlpha(a, b) == Min(255, a + b)

\* BLEND_RGBA_MULT on one channel
MultAlpha(d, s) == IF d > 0 /\ s > 0 THEN (d * s + 255) \div 256 ELSE 0

\* lines 295-298: the size soft_blur scales n down to, factor = pct / 100
ScaledSize(n, pct) == Max(2, (n * pct) \div 100)

CeilDiv(a, b) == (a + b - 1) \div b

\* the sum of img over the bw-wide block of k + 1 pixels that starts at (xlo, ylo)
RECURSIVE SumBlock(_, _, _, _, _)
SumBlock(img, xlo, ylo, bw, k) ==
    IF k < 0 THEN 0
    ELSE img[<<xlo + (k % bw), ylo + (k \div bw)>>] + SumBlock(img, xlo, ylo, bw, k - 1)

\* soft_blur(surface, factor, passes = 1) on one channel of a w x h image:
\* smoothscale down averages the pixels that fall on a pixel of the small
\* image, smoothscale up spreads the small image over the pixels again
soft_blur(img, w, h, pct) ==
    LET lw == ScaledSize(w, pct)
        lh == ScaledSize(h, pct)
        mean == [b \in (0..(lw - 1)) \X (0..(lh - 1)) |->
                    LET xlo == CeilDiv(b[1] * w, lw)
                        ylo == CeilDiv(b[2] * h, lh)
                        bw == CeilDiv((b[1] + 1) * w, lw) - xlo
                        bh == CeilDiv((b[2] + 1) * h, lh) - ylo
                    IN  SumBlock(img, xlo, ylo, bw, bw * bh - 1) \div (bw * bh)]
    IN  [p \in (0..(w - 1)) \X (0..(h - 1)) |->
            mean[<<(p[1] * lw) \div w, (p[2] * lh) \div h>>]]

\* the squared distance of the pixel p from the centre (r, r)
DistSq(r, p) == (p[1] - r) * (p[1] - r) + (p[2] - r) * (p[2] - r)

\* lines 597-599: the alpha of the bloom overlay
BloomAlpha(r, srf) ==
    LET blurred == soft_blur([p \in SurfacePixels(r) |-> srf[p].alpha],
                             2 * r, 2 * r, 32)
    IN  [p \in SurfacePixels(r) |-> MultAlpha(blurred[p], 255)]

\* lines 601-608: the alpha of glow_surface under the pixel p of the surface.
\* The filled circles are drawn from the largest to the smallest, so a pixel
\* keeps the colour of the smallest circle that covers it; the glow surface
\* is blitted at (-24, -24), so its centre lies on the centre of the disc.
\* The falloff (1 - t) ** 1.9 is computed with the exponent 2.
GlowAlpha(r, p) ==
    LET center == (2 * r + 48) \div 2
        covering == {c \in 1..center : c * c >= DistSq(r, p)}
    IN  IF covering = {} THEN 0
        ELSE LET c == CHOOSE c \in covering : \A d \in covering : c <= d
             IN  Trunc(140 * (center - c) * (center - c), center * center)

\* lines 610-616: the alpha of the rim overlay at p.  The ring i has the
\* outer radius r - i and is 2 wide; a later ring overwrites an earlier one.
RimAlpha(r, p) ==
    LET rings == {i \in 0..41 : /\ r - i >= 1
                                 /\ DistSq(r, p) <= (r - i) * (r - i)
                                 /\ \/ r - i <= 2
                                    \/ DistSq(r, p) > (r - i - 2) * (r - i - 2)}
    IN  IF rings = {} THEN 0
        ELSE LET i == CHOOSE i \in rings : \A j \in rings : j <= i
             IN  Max(0, 130 - i * 3)

\* lines 622-629: the alpha of one beam, 6 x 2r, after soft_blur
BeamAlpha(r) ==
    soft_blur([p \in (0..5) \X (0..(2 * r - 1)) |->
                  Max(0, 110 - Trunc(Abs(p[2] - r) * 110, r)) \div 2],
              6, 2 * r, 45)

\* line 623: the x of the beam i
BeamX(r, rot, i) == r + Trunc(Sin(rot + i * (TAU \div 16)) * r * 94, ONE * 100)

\* line 630: the alpha of the overlay at p after the beams 0..i were added
RECURSIVE OverlayAlpha(_, _, _, _, _)
OverlayAlpha(r, rot, beam, p, i) ==
    IF i < 0 THEN 0
    ELSE LET x == p[1] - (BeamX(r, rot, i) - 3)
             below == OverlayAlpha(r, rot, beam, p, i - 1)
         IN  IF x \in 0..5 THEN AddAlpha(below, beam[<<x, p[2]>>]) ELSE below

\* lines 596-616: the surface after _apply_atmosphere
AtmosphereSurface(r, srf) ==
    LET bloom == BloomAlpha(r, srf)
    IN  [p \in SurfacePixels(r) |->
            LET glow == GlowAlpha(r, p)
                rim == RimAlpha(r, p)
            IN  [srf[p] EXCEPT
                    !.alpha = AddAlpha(AddAlpha(AddAlpha(@, bloom[p]), glow), rim),
                    !.halo = <<bloom[p], glow, rim, @[4]>>]]

\* lines 618-631: the surface after _apply_longitude_highlights
HighlightedSurface(r, srf, rot) ==
    LET beam == BeamAlpha(r)
    IN  [p \in SurfacePixels(r) |->
            LET beams == OverlayAlpha(r, rot, beam, p, 15)
            IN  [srf[p] EXCEPT !.alpha = AddAlpha(@, beams),
                               !.halo = <<@[1], @[2], @[3], beams>>]]

---------------------------------------------------------------------------
\* A GlobeRenderer from its construction on, and the calls of render().

\* the (rotation, sun_phase, cloud_offset) render() is called with: the
\* first frame, the state after 16 ms, a night side, and a rotation just
\* below a full turn
RenderArgs ==
    { <<0, 0, 0>>, <<560, 352, 128>>, <<HALF_PI, PI, 50000>>, <<TAU - 35, PI, 0>> }

\* lines 470-477: the constructor sets self.city_vectors and returns
FinishConstruction ==
    /\ gpc = "build"
    /\ Built
    /\ city_vectors' = CityVectors
    /\ constructed' = <<maps, pixel_data, CityVectors>>
    /\ gpc' = "ready"
    /\ UNCHANGED <<maps, render_args, globe_surface, renders, first_call, other_calls>>
    /\ UNCHANGED <<loopVars, callVars, globeVars, noiseVars>>

\* the per-pixel pass, scrolling self.cloud_alpha in place by a column
RenderPixelsScrollingClouds ==
    /\ gpc \in {"ready", "returned"}
    /\ renders < MaxRenders
    /\ \E a \in RenderArgs :
          /\ render_args' = a
          /\ globe_surface' = ShadedSurface(radius, pixel_data, a[1], a[2], a[3],
                                            maps, city_vectors)
    /\ maps' = [maps EXCEPT !.cloud_alpha =
                    [c \in TexCells |-> maps.cloud_alpha[<<(c[1] + 1) % TexW, c[2]>>]]]
    /\ gpc' = "shaded"
    /\ UNCHANGED <<city_vectors, renders, constructed, first_call, other_calls>>
    /\ UNCHANGED <<loopVars, callVars, globeVars, noiseVars>>

\* lines 494-590: render(rotation, sun_phase, cloud_offset) up to the end
\* of the per-pixel pass
RenderPixels ==
    /\ gpc \in {"ready", "returned"}
    /\ renders < MaxRenders
    /\ \E a \in RenderArgs :
          /\ render_args' = a
          /\ globe_surface' = ShadedSurface(radius, pixel_data, a[1], a[2], a[3],
                                            maps, city_vectors)
    /\ gpc' = "shaded"
    /\ UNCHANGED <<maps, city_vectors, renders, constructed, first_call, other_calls>>
    /\ UNCHANGED <<loopVars, callVars, globeVars, noiseVars>>

\* line 592: self._apply_atmosphere(globe_surface)
ApplyAtmosphere ==
    /\ gpc = "shaded"
    /\ globe_surface' = AtmosphereSurface(radius, globe_surface)
    /\ gpc' = "atmosphere"
    /\ UNCHANGED <<maps, city_vectors, render_args, renders, constructed,
                   first_call, other_calls>>
    /\ UNCHANGED <<loopVars, callVars, globeVars, noiseVars>>

\* lines 593-594: self._apply_longitude_highlights(globe_surface, rotation)
\* and the return of globe_surface
ApplyLongitudeHighlights ==
    /\ gpc = "atmosphere"
    /\ globe_surface' = HighlightedSurface(radius, globe_surface, render_args[1])
    /\ gpc' = "returned"
    /\ renders' = renders + 1
    /\ first_call' = IF first_call.set THEN first_call
                     ELSE [set |-> TRUE, args |-> render_args,
                           surface |-> globe_surface']
    /\ other_calls' = (other_calls \/ (first_call.set /\ render_args # first_call.args))
    /\ UNCHANGED <<maps, city_vectors, render_args, constructed>>
    /\ UNCHANGED <<loopVars, callVars, globeVars, noiseVars>>

\* lines 450-468: the base maps are generated, the table is empty
InitRender ==
    /\ LoopInit /\ CallsIdle /\ NoiseIdle
    /\ radius \in 1..MaxRenderRadius
    /\ pixel_data = <<>>
    /\ build_x = 0
    /\ build_y = 0
    /\ maps \in {BaseMaps(t) : t \in 1..MaxMaps}
    /\ city_vectors = <<>>
    /\ gpc = "build"
    /\ render_args = <<>> /\ globe_surface = NoSurface /\ renders = 0
    /\ constructed = <<>> /\ first_call = NoCall /\ other_calls = FALSE

\* The constructor for any GLOBE_RADIUS, the non-positive ones included:
\* __init__ and _build_pixel_data test no configuration value, and
\* range(radius * 2) is empty for radius <= 0.
InitConfig ==
    /\ LoopInit /\ CallsIdle /\ NoiseIdle
    /\ radius \in (-MaxRenderRadius)..MaxRenderRadius
    /\ pixel_data = <<>>
    /\ build_x = 0
    /\ build_y = 0
    /\ maps \in {BaseMaps(t) : t \in 1..MaxMaps}
    /\ city_vectors = <<>>
    /\ gpc = "build"
    /\ render_args = <<>> /\ globe_surface = NoSurface /\ renders = 0
    /\ constructed = <<>> /\ first_call = NoCall /\ other_calls = FALSE

NextConfig ==
    \/ BuildPixel
    \/ FinishConstruction

SpecConfig == InitConfig /\ [][NextConfig]_vars

NextRender ==
    \/ BuildPixel
    \/ FinishConstruction
    \/ RenderPixels
    \/ ApplyAtmosphere
    \/ ApplyLongitudeHighlights

SpecRender == InitRender /\ [][NextRender]_vars

---------------------------------------------------------------------------
\* fractal_noise(width, height, octaves, persistence, seed).  A generator
\* is a state in 0..RngMod-1 that a draw advances; np.random.RandomState and
\* the global random module are generators of this kind.  A value of the
\* small grid is a byte (the uint8 of line 273); a value of the returned
\* field counts 1 / (255 * ONE), so the field lies in [0, 1] when every
\* value lies in 0..255 * ONE.

RngMod == 8

\* line 259: np.random.RandomState(seed), the state a seed starts from
RandomState(seed) == (seed * 7 + 3) % RngMod

\* one draw: the state after it
RngStep(state) == (5 * state + 3) % RngMod

\* the state after n draws
RECURSIVE RngSkip(_, _)
RngSkip(state, n) == IF n = 0 THEN state ELSE RngSkip(RngStep(state), n - 1)

\* lines 272-273: (rand * 255.0).astype(np.uint8) for the draw that left state
RngByte(state) == (state * 255) \div RngMod

\* lines 272-273: rng.rand(res_w, res_h) as bytes, drawn in row-major order
RandomValues(rng, res_w, res_h) ==
    [c \in (0..(res_w - 1)) \X (0..(res_h - 1)) |->
        RngByte(RngSkip(rng, c[1] * res_h + c[2] + 1))]

\* line 275: pygame.transform.smoothscale(surface, (w, h)) of an sw x sh
\* image: a pixel gets the mean of the source pixels that fall on it
smoothscale(img, sw, sh, w, h) ==
    [p \in (0..(w - 1)) \X (0..(h - 1)) |->
        LET xlo == (p[1] * sw) \div w
            ylo == (p[2] * sh) \div h
            bw == Max(1, CeilDiv((p[1] + 1) * sw, w) - xlo)
            bh == Max(1, CeilDiv((p[2] + 1) * sh, h) - ylo)
        IN  SumBlock(img, xlo, ylo, bw, bw * bh - 1) \div (bw * bh)]

\* lines 265-282: the octaves from octave on; amplitude and total count 1 / ONE
RECURSIVE NoiseOctaves(_, _, _, _, _, _)
NoiseOctaves(a, octave, rng, noise, amplitude, total_amplitude) ==
    IF octave >= a.octaves
    THEN [noise |-> noise, total_amplitude |-> total_amplitude]
    ELSE LET res_w == Max(2, Min(a.width, 32 * 2 ^ octave))
             res_h == Max(2, Min(a.height, 32 * 2 ^ octave))
             scaled == smoothscale(RandomValues(rng, res_w, res_h),
                                   res_w, res_h, a.width, a.height)
         IN  NoiseOctaves(a, octave + 1, RngSkip(rng, res_w * res_h),
                          [c \in DOMAIN noise |-> noise[c] + scaled[c] * amplitude],
                          (amplitude * a.persistence) \div ONE,
                          total_amplitude + amplitude)

\* lines 260-263: np.zeros((width, height))
NoiseZeros(a) == [c \in (0..(a.width - 1)) \X (0..(a.height - 1)) |-> 0]

\* fractal_noise returning the accumulated sum as it is
fractal_noise_unnormalized(a) ==
    LET acc == NoiseOctaves(a, 0, RandomState(a.seed), NoiseZeros(a), ONE, 0)
    IN  [called |-> TRUE,
         field |-> [c \in DOMAIN acc.noise |-> acc.noise[c]],
         divided |-> acc.total_amplitude # 0]

\* lines 259-286, with the generator the octaves draw from
FractalNoise(a, rng) ==
    LET acc == NoiseOctaves(a, 0, rng, NoiseZeros(a), ONE, 0)
    IN  IF acc.total_amplitude = 0
        THEN [called |-> TRUE, field |-> acc.noise, divided |-> FALSE]
        ELSE [called |-> TRUE,
              field |-> [c \in DOMAIN acc.noise |->
                            (acc.noise[c] * ONE) \div acc.total_amplitude],
              divided |-> TRUE]

\* lines 251-286
fractal_noise(a) == FractalNoise(a, RandomState(a.seed))

\* the arguments tried by the model; persistence counts 1 / ONE
NoiseArgs ==
    [width : 1..MaxNoiseSize, height : 1..MaxNoiseSize, octaves : 0..MaxOctaves,
     persistence : {0, 550, ONE}, seed : {0, 42}]

\* a call of fractal_noise that draws from the global random module
CallFractalNoiseGlobalRng ==
    /\ noise_calls < MaxNoiseCalls
    /\ noise_ret' = FractalNoise(noise_args, global_rng)
    /\ noise_first' = IF noise_calls = 0 THEN noise_ret' ELSE noise_first
    /\ first_global' = IF noise_calls = 0 THEN global_rng ELSE first_global
    /\ noise_calls' = noise_calls + 1
    /\ global_rng' = RngStep(global_rng)
    /\ UNCHANGED noise_args
    /\ UNCHANGED <<loopVars, callVars, globeVars, renderVars>>

\* a call fractal_noise(width, height, octaves, persistence, seed) returns
CallFractalNoise ==
    /\ noise_calls < MaxNoiseCalls
    /\ noise_ret' = fractal_noise(noise_args)
    /\ noise_first' = IF noise_calls = 0 THEN noise_ret' ELSE noise_first
    /\ first_global' = IF noise_calls = 0 THEN global_rng ELSE first_global
    /\ noise_calls' = noise_calls + 1
    /\ UNCHANGED <<noise_args, global_rng>>
    /\ UNCHANGED <<loopVars, callVars, globeVars, renderVars>>

\* lines 338-340, 399-403: another generator draws from the random module
GlobalRandint ==
    /\ global_rng' = RngStep(global_rng)
    /\ UNCHANGED <<noise_args, noise_ret, noise_first, noise_calls, first_global>>
    /\ UNCHANGED <<loopVars, callVars, globeVars, renderVars>>

\* lines 396, 435: random.seed(seed)
GlobalSeed ==
    /\ \E seed \in {7, 42} : global_rng' = RandomState(seed)
    /\ UNCHANGED <<noise_args, noise_ret, noise_first, noise_calls, first_global>>
    /\ UNCHANGED <<loopVars, callVars, globeVars, renderVars>>

\* the random module starts from the system's entropy
InitNoise ==
    /\ LoopInit /\ CallsIdle /\ GlobeIdle /\ RenderIdle
    /\ noise_args \in NoiseArgs
    /\ noise_ret = NoNoise /\ noise_first = NoNoise
    /\ noise_calls = 0
    /\ global_rng \in 0..(RngMod - 1)
    /\ first_global = 0

NextNoise ==
    \/ CallFractalNoise
    \/ GlobalRandint
    \/ GlobalSeed

SpecNoise == InitNoise /\ [][NextNoise]_vars

---------------------------------------------------------------------------
\* Claims about the frame loop (checked under Spec)

\* C1: after any sequence of ticks, whatever the elapsed times, rotation and
\* sun_phase stay in [0, 2 pi) and cloud_offset stays in [0, 1).
C1_WrappedRanges ==
    /\ 0 <= rotation /\ rotation < TAU
    /\ 0 <= sun_phase /\ sun_phase < TAU
    /\ 0 <= cloud_offset /\ cloud_offset < CLOUD_ONE

\* C1 witness: an update with a very large elapsed time has wrapped all three.
C1_Witness ==
    /\ pc = "markers"
    /\ frame >= 2
    /\ CLOUD_STEP * clock_time >= CLOUD_ONE
    /\ rotation > 0 /\ sun_phase > 0 /\ cloud_offset > 0

\* C2 as stated: the hit regions a click of this frame consulted are the
\* ones of this frame's rotation (the rotation UpdateState has just set).
C2_ClickUsesThisFramesRegions ==
    (/\ consulted.clicked
     /\ consulted.frame = frame
     /\ pc \in {"markers", "draw", "tick"})
        => consulted.boxes = MarkerHitboxes(rotation)

\* C2 amended: the hit regions a click consults are the ones computed at the
\* end of the previous loop iteration from that iteration's rotation (the
\* frame on screen), and the empty dict in the first iteration; while events
\* are polled, hitboxes is exactly that dict.
C2_ClickUsesRegionsOnScreen ==
    /\ consulted.clicked =>
          /\ consulted.frame = 1 => consulted.boxes = NoHitboxes
          /\ consulted.frame > 1 =>
                consulted.boxes = MarkerHitboxes(consulted.rotation)
    /\ pc = "poll" =>
          /\ hit_frame = frame - 1
          /\ frame > 1 => /\ hitboxes = MarkerHitboxes(rotation)
                          /\ hit_rotation = rotation
                          /\ shown_rotation = rotation

\* C2 witness: a click in a later frame selected a destination through
\* regions that differ from the ones of that frame's own rotation.
C2_Witness ==
    /\ consulted.clicked
    /\ consulted.frame = frame
    /\ frame >= 2
    /\ pc = "draw"
    /\ consulted.boxes # hitboxes
    /\ selected # "hyderabad"


\* the hit regions of boxes that contain pos
RegionsAt(boxes, pos) ==
    {k \in DOMAIN boxes :
        /\ boxes[k].left <= pos[1] /\ pos[1] < boxes[k].left + boxes[k].width
        /\ boxes[k].top <= pos[2] /\ pos[2] < boxes[k].top + boxes[k].height}

\* C13: after a left-button press at a position inside the hit region of a
\* destination D, selected is D, for every D whose hit region contains the
\* position.
C13_ClickSelects ==
    consulted.clicked =>
        \A k \in RegionsAt(consulted.boxes, consulted.pos) : selected = k

\* a left click inside the hit region of a destination other than the one
\* selected at the start has selected it
C13_Witness ==
    /\ consulted.clicked
    /\ selected # "hyderabad"
    /\ selected \in RegionsAt(consulted.boxes, consulted.pos)

\* C14: when the event loop has handled a pointer motion by dx # 0 with a
\* button held, rotation has changed by dx times a gain (a drag turns the
\* globe).
C14_DragTurnsGlobe ==
    (/\ pc = "poll"
     /\ handled.seen
     /\ handled.type = "MOUSEMOTION"
     /\ handled.buttons
     /\ handled.rel # 0)
        => rotation # handled.rotation_before

\* C15: with no input, the amount a tick adds to rotation shrinks from one
\* tick to the next: a state update that follows an update with the same
\* elapsed time dt > 0 adds less than that one added.
C15_AdvanceShrinks ==
    [][(/\ pc = "update"
        /\ pc' = "markers"
        /\ ~handled.seen
        /\ clock_time > 0
        /\ advance.dt = clock_time)
          => advance'.by < advance.by]_vars

\* the order of the steps of an iteration, and what follows the last one
StepOrder ==
    { <<"poll", "update">>, <<"update", "markers">>, <<"markers", "draw">>,
      <<"draw", "tick">>, <<"tick", "poll">>, <<"tick", "quit">>,
      <<"quit", "done">> }

\* C19: the steps of an iteration follow one another in the order input
\* polling, state update, marker projection, render and present; the
\* animation state changes only in the state update, the markers are
\* projected and the frame is rendered with the rotation that update left,
\* and the next frame begins only after the present of this one.
C19_StrictlySequential ==
    [][/\ pc' # pc => <<pc, pc'>> \in StepOrder
       /\ <<rotation, sun_phase, cloud_offset>>' # <<rotation, sun_phase, cloud_offset>>
             => pc = "update"
       /\ hitboxes' # hitboxes => pc = "markers"
       /\ pc' = "draw" => hit_rotation' = rotation' /\ hit_frame' = frame'
       /\ pc' = "tick" => shown_rotation' = rotation /\ hit_rotation = rotation
       /\ frame' # frame => pc = "tick" /\ pc' = "poll" /\ shown_rotation = rotation
      ]_vars

\* the second frame has been presented: its markers and its picture were
\* made from the rotation its state update left
C19_Witness ==
    /\ pc = "tick"
    /\ frame = 2
    /\ rotation > 0
    /\ hit_frame = 2
    /\ hit_rotation = rotation
    /\ shown_rotation = rotation

\* pixels of the globe surface whose table entries the wrap is probed at
WrapProbes == { <<GLOBE_RADIUS, GLOBE_RADIUS>>, <<100, 200>>, <<500, 300>> }

\* C22: when the state update wraps rotation (the sum r of line 1082 is
\* 2 pi or more and r - 2 pi is stored), render gets from the stored
\* rotation the map sample positions and the sun direction it would get
\* from r.
C22_WrapKeepsRender ==
    [][(/\ pc = "update"
        /\ pc' = "markers"
        /\ rotation + ROTATION_STEP * clock_time \in TAU..(2 * TAU - 1))
          => LET r == rotation + ROTATION_STEP * clock_time
             IN  /\ rotation' = r - TAU
                 /\ \A p \in WrapProbes :
                       LET entry == PixelEntry(GLOBE_RADIUS, p[1], p[2])
                       IN  SampleTaps(TexW, TexH, MapX(entry, r, TexW),
                                      MapY(entry, TexH))
                             = SampleTaps(TexW, TexH, MapX(entry, rotation', TexW),
                                          MapY(entry, TexH))
                 /\ SunDir(r, sun_phase') = SunDir(rotation', sun_phase')
      ]_vars

\* C24: selected is always a key of DESTINATIONS, and it changes only when
\* the event loop handles a press of button 1 at a position inside the hit
\* region of the destination it becomes: a left click outside every hit
\* region, a click with another button and every other step leave it as
\* it is.
C24_SelectionFrame ==
    /\ [](selected \in DEST_KEYS)
    /\ [][selected' # selected =>
            /\ pc = "poll" /\ pc' = "poll"
            /\ handled'.type = "MOUSEBUTTONDOWN"
            /\ handled'.button = 1
            /\ consulted'.clicked
            /\ consulted'.boxes = hitboxes
            /\ selected' \in RegionsAt(hitboxes, consulted'.pos)
         ]_vars

\* with hit regions on screen, a left click outside all of them was handled
\* and the destination selected at the start is still selected
C24_Witness ==
    /\ pc = "poll"
    /\ handled.type = "MOUSEBUTTONDOWN"
    /\ handled.button = 1
    /\ consulted.clicked
    /\ DOMAIN consulted.boxes # {}
    /\ RegionsAt(consulted.boxes, consulted.pos) = {}
    /\ selected = "hyderabad"

---------------------------------------------------------------------------
\* Claims about the end of the frame loop (checked under SpecFair)

\* C25: running is cleared only by a QUIT event or an Escape key press in
\* the event loop and is never set again; once it is cleared no further
\* frame begins, the current frame is updated, drawn and presented, the
\* loop ends and pygame.quit is called; the loop ends in no other way.
C25_StopsOnExitRequest ==
    /\ [][running' # running =>
            /\ running /\ pc = "poll"
            /\ \/ handled'.type = "QUIT"
               \/ handled'.type = "KEYDOWN" /\ handled'.key = "ESCAPE"
         ]_vars
    /\ [][~running => frame' = frame /\ (pc # "poll" => pc' # "poll")]_vars
    /\ [](pc \in {"quit", "done"} =>
            /\ ~running
            /\ hit_frame = frame
            /\ hit_rotation = rotation
            /\ shown_rotation = rotation)
    /\ (~running ~> pc = "done")

\* after an exit request in the second frame, that frame was presented and
\* pygame.quit was called
C25_Witness ==
    /\ pc = "done"
    /\ ~running
    /\ frame = 2
    /\ hit_frame = 2
    /\ shown_rotation = rotation

---------------------------------------------------------------------------
\* Claims about update_destination_markers (checked under SpecMarkers)

\* C23: after update_destination_markers(rotation), a destination's key is
\* in the returned dict iff project_point is not None for that rotation iff
\* its screen_pos is not None; a back-facing destination has screen_pos None
\* and surface_depth 0; a visible one has surface_depth > 0 and a square hit
\* rect centred on screen_pos whose side lies in 18..26 and does not
\* decrease with the depth.
C23_MarkersAfterUpdate ==
    hit_frame >= 1 =>
        /\ \A k \in DEST_KEYS :
              LET proj == project_point(DESTINATIONS[k].latitude,
                                        DESTINATIONS[k].longitude, hit_rotation)
              IN  /\ (k \in DOMAIN hitboxes) <=> proj.some
                  /\ proj.some <=> dest_state[k].screen_pos.some
                  /\ ~proj.some =>
                        /\ dest_state[k].screen_pos = None
                        /\ dest_state[k].surface_depth = 0
                  /\ proj.some =>
                        /\ dest_state[k].surface_depth > 0
                        /\ dest_state[k].surface_depth = proj.depth
                        /\ dest_state[k].screen_pos.pos = proj.pos
                        /\ hitboxes[k].width \in 18..26
                        /\ hitboxes[k].height = hitboxes[k].width
                        /\ RectCenter(hitboxes[k]) = dest_state[k].screen_pos.pos
        /\ \A k, j \in DOMAIN hitboxes :
              dest_state[k].surface_depth <= dest_state[j].surface_depth
                  => hitboxes[k].width <= hitboxes[j].width

\* a call that left a back-facing destination and two visible ones with
\* hit rects of different sides, one of them of the largest side
C23_Witness ==
    /\ hit_frame >= 1
    /\ \E k \in DEST_KEYS : k \notin DOMAIN hitboxes
    /\ \E k, j \in DOMAIN hitboxes :
          /\ hitboxes[k].width < hitboxes[j].width
          /\ hitboxes[j].width >= 25

---------------------------------------------------------------------------
\* Claims about lonlat_to_mapxy (checked under SpecMapXY)

\* C3: wrap invariant: lonlat_to_mapxy(lon + 360 k, lat) is the cell of
\* lonlat_to_mapxy(lon, lat) for every lon, lat and integer k, also when
\* lon + 360 k is below -180.
C3_WrapInvariant ==
    map_ret.called => map_ret.wrapped = map_ret.cell

---------------------------------------------------------------------------
\* Claims about the samplers (checked under SpecSample)

\* C4: at integer coordinates (x, y), 0 <= x < width, 0 <= y <= height - 1,
\* sample_scalar and sample_color return exactly the texel array[x, y], the
\* last row y = height - 1 included.
C4_ExactAtGridPoints ==
    (/\ samp_ret.called
     /\ samp_args.x % SUB = 0 /\ samp_args.y % SUB = 0
     /\ 0 <= samp_args.x /\ samp_args.x < TexW * SUB
     /\ 0 <= samp_args.y /\ samp_args.y <= (TexH - 1) * SUB)
        => LET at == <<samp_args.x \div SUB, samp_args.y \div SUB>>
           IN  /\ samp_ret.scalar = ImpulseScalar(samp_args.cell)[at] * SUB2
               /\ \A c \in 1..3 :
                     samp_ret.color[c] = ImpulseColor(samp_args.cell)[at][c] * SUB2

---------------------------------------------------------------------------
\* Claims about project_point (checked under SpecProject)

\* C6: a destination at latitude 0 whose longitude equals the rotation is
\* projected to GLOBE_CENTER with depth 1.0.
C6_FacingIsCentred ==
    (/\ proj_ret.called
     /\ proj_args.latitude = 0
     /\ Radians(proj_args.longitude) % TAU = proj_args.rotation)
        => proj_ret.value = Some(GLOBE_CENTER, ONE2)

\* C7: a destination at latitude 0 whose longitude equals the rotation plus
\* 180 degrees is projected to None.
C7_OppositeIsHidden ==
    (/\ proj_ret.called
     /\ proj_args.latitude = 0
     /\ Radians(proj_args.longitude - 18000) % TAU = proj_args.rotation)
        => proj_ret.value = None

\* C8: project_point returns None exactly when z = cos(lon + rot) cos(lat)
\* is <= 0, and otherwise a depth equal to z, which lies in (0, 1].
C8_NoneIffBackFacing ==
    proj_ret.called =>
        LET z == Cos(Radians(proj_args.longitude) + proj_args.rotation)
                    * Cos(Radians(proj_args.latitude))
        IN  /\ (proj_ret.value = None) <=> (z <= 0)
            /\ proj_ret.value.some <=> (z > 0)
            /\ proj_ret.value.some =>
                  /\ proj_ret.value.depth = z
                  /\ 0 < proj_ret.value.depth
                  /\ proj_ret.value.depth <= ONE2

\* C8 witness: an oblique front-facing point was projected with a depth
\* strictly inside (0, 1).
C8_Witness ==
    /\ proj_ret.called
    /\ proj_ret.value.some
    /\ proj_args.latitude # 0
    /\ proj_args.rotation # 0
    /\ proj_ret.value.depth < ONE2

\* line 1091: the pixel of the globe surface under the screen position pos
\* (the surface is blitted at GLOBE_CENTER - GLOBE_RADIUS)
SurfacePixelAt(pos) ==
    <<pos[1] - (GLOBE_CENTER[1] - GLOBE_RADIUS),
      pos[2] - (GLOBE_CENTER[2] - GLOBE_RADIUS)>>

\* the distance of two angles on the circle
AngleGap(a, b) == Min((a - b) % TAU, (b - a) % TAU)

\* C21: for a front-facing destination (here: one with depth >= 0.5, where
\* a pixel spans less than half a degree) the sample-table entry of the
\* pixel under the projected position samples the base maps, at line 507
\* and 509, within 2 degrees of the destination's longitude (modulo 360
\* degrees) and latitude.
C21_MarkersRegistered ==
    (/\ proj_ret.called
     /\ proj_ret.value.some
     /\ 2 * proj_ret.value.depth >= ONE2
     /\ InDisc(GLOBE_RADIUS, SurfacePixelAt(proj_ret.value.pos)[1],
                             SurfacePixelAt(proj_ret.value.pos)[2]))
        => LET p == SurfacePixelAt(proj_ret.value.pos)
               entry == PixelEntry(GLOBE_RADIUS, p[1], p[2])
           IN  /\ AngleGap(entry.lon0 + proj_args.rotation,
                           Radians(proj_args.longitude)) <= Radians(200)
               /\ Abs(entry.lat - Radians(proj_args.latitude)) <= Radians(200)

---------------------------------------------------------------------------
\* Claims about the sample table (checked under SpecPixelData)

\* the discrete disc area: the integer offsets (dx, dy) with
\* dx^2 + dy^2 <= r^2
DiscArea(r) ==
    Cardinality({d \in (-r..r) \X (-r..r) : d[1] * d[1] + d[2] * d[2] <= r * r})

\* C5 as stated: the table built for radius R has as many entries as there
\* are integer offsets (dx, dy) with dx^2 + dy^2 <= R^2.
C5_CountIsDiscArea ==
    Built => Len(pixel_data) = DiscArea(radius)

\* C5 amended: the table holds exactly one entry for every pixel (x, y) of
\* the 2R x 2R bounding square (0 <= x, y < 2R) with dx^2 + dy^2 <= R^2;
\* that is the discrete disc area less the two offsets (R, 0) and (0, R),
\* which lie outside the square.
C5_CountIsDiscAreaInSquare ==
    Built =>
        LET square == (0..(2 * radius - 1)) \X (0..(2 * radius - 1))
            inside == {p \in square : InDisc(radius, p[1], p[2])}
        IN  /\ Len(pixel_data) = Cardinality(inside)
            /\ {<<pixel_data[i].px, pixel_data[i].py>> :
                    i \in 1..Len(pixel_data)} = inside
            /\ Len(pixel_data) = DiscArea(radius) - 2

\* C5 witness: the table of a radius above 1 has been built.
C5_Witness ==
    /\ Built
    /\ radius >= 3
    /\ Len(pixel_data) > 4

---------------------------------------------------------------------------
\* Claims about render() (checked under SpecRender)

\* the pixels of the surface that have an entry in the sample table
TablePixels == {<<pixel_data[i].px, pixel_data[i].py>> : i \in 1..Len(pixel_data)}

\* C9 as stated: in the buffer render returns, every pixel of the sample
\* table has alpha 255, the disc centre included, and every other pixel of
\* the buffer has alpha 0.
C9_OpaqueDiscTransparentOutside ==
    gpc = "returned" =>
        /\ <<radius, radius>> \in TablePixels
        /\ \A p \in SurfacePixels(radius) :
              globe_surface[p].alpha = IF p \in TablePixels THEN 255 ELSE 0

\* C9 amended: every pixel of the sample table, the disc centre included,
\* has alpha 255 from the per-pixel pass on and in the buffer render
\* returns; every other pixel has alpha 0 when the per-pixel pass ends, and
\* the post-passes only add to it.
C9_OpaqueDiscTransparentBeforePostPasses ==
    /\ gpc \in {"shaded", "atmosphere", "returned"} =>
          /\ <<radius, radius>> \in TablePixels
          /\ \A p \in TablePixels : globe_surface[p].alpha = 255
    /\ gpc = "shaded" =>
          \A p \in SurfacePixels(radius) \ TablePixels : globe_surface[p].alpha = 0
    /\ gpc \in {"atmosphere", "returned"} =>
          \A p \in SurfacePixels(radius) \ TablePixels :
              globe_surface[p].alpha
                  = Min(255, globe_surface[p].halo[1] + globe_surface[p].halo[2]
                               + globe_surface[p].halo[3] + globe_surface[p].halo[4])

\* a returned buffer whose post-passes added to a pixel of the table and
\* lit a pixel outside it
C9_Witness ==
    /\ gpc = "returned"
    /\ \E p \in TablePixels :
          /\ globe_surface[p].alpha = 255
          /\ globe_surface[p].halo[1] + globe_surface[p].halo[2] > 0
    /\ \E p \in SurfacePixels(radius) \ TablePixels : globe_surface[p].alpha > 0

\* C10: two render calls on one GlobeRenderer with the same (rotation,
\* sun_phase, cloud_offset) return the same buffer, whatever calls happen
\* in between, and render leaves the base-map arrays, the sample table and
\* the city vectors as the constructor left them.
C10_RenderIsPure ==
    /\ gpc \in {"ready", "shaded", "atmosphere", "returned"} =>
          <<maps, pixel_data, city_vectors>> = constructed
    /\ (gpc = "returned" /\ render_args = first_call.args) =>
          globe_surface = first_call.surface

\* the first call's arguments are rendered again, as the third call or a
\* later one, after a call with other arguments returned
C10_Witness ==
    /\ gpc = "returned"
    /\ renders >= 3
    /\ other_calls
    /\ render_args = first_call.args
    /\ globe_surface = first_call.surface

\* lines 511-516: the taps of the samples render takes for one table entry,
\* at (map_x, map_y) and at (cloud_sample_x, map_y)
RenderTaps(entry, a) ==
    LET map_x == MapX(entry, a[1], TexW)
        map_y == MapY(entry, TexH)
    IN  { SampleTaps(TexW, TexH, map_x, map_y),
          SampleTaps(TexW, TexH, CloudSampleX(map_x, a[3], TexW), map_y) }

\* C11: in a render call, for every pixel of the sample table, the four
\* texel indices of every sample lie inside the texture (0 <= x0, x1 < width,
\* 0 <= y0, y1 < height) and the pixel written lies inside the 2R x 2R buffer.
C11_RenderIndicesInRange ==
    gpc \in {"shaded", "atmosphere", "returned"} =>
        \A i \in 1..Len(pixel_data) :
            /\ pixel_data[i].px \in 0..(2 * radius - 1)
            /\ pixel_data[i].py \in 0..(2 * radius - 1)
            /\ \A t \in RenderTaps(pixel_data[i], render_args) :
                  /\ t.x0 \in 0..(TexW - 1) /\ t.x1 \in 0..(TexW - 1)
                  /\ t.y0 \in 0..(TexH - 1) /\ t.y1 \in 0..(TexH - 1)

\* a render call has returned in which a sample was taken in the last
\* column, its right neighbour being column 0, and another in the last row
\* the clamp allows
C11_Witness ==
    /\ gpc = "returned"
    /\ \E i \in 1..Len(pixel_data) :
          \E t \in RenderTaps(pixel_data[i], render_args) :
              t.x0 = TexW - 1 /\ t.x1 = 0
    /\ \E i \in 1..Len(pixel_data) :
          \E t \in RenderTaps(pixel_data[i], render_args) :
              t.y0 = TexH - 2 /\ t.y1 = TexH - 1

---------------------------------------------------------------------------
\* Claims about the horizontal wrap of the samplers (checked under SpecSample)

\* the weight a call at x in [width - 1, width) must give the column col,
\* scaled by SUB2
WrapWeight(col, x) ==
    LET tx == x - (TexW - 1) * SUB
    IN  (IF col = 0 THEN tx * SUB ELSE 0)
            + (IF col = TexW - 1 THEN (SUB - tx) * SUB ELSE 0)

\* C12: for x in [width - 1, width) both samplers weight the first column
\* by x - (width - 1), the last column by the rest and no other column, and
\* a call at x + width returns what the call at x returns.
C12_HorizontalWrap ==
    samp_ret.called =>
        /\ samp_ret.scalar_shifted = samp_ret.scalar
        /\ samp_ret.color_shifted = samp_ret.color
        /\ samp_args.x \in ((TexW - 1) * SUB)..(TexW * SUB - 1) =>
              /\ samp_ret.column_scalar = WrapWeight(samp_args.cell[1], samp_args.x)
              /\ \A c \in 1..3 :
                    samp_ret.column_color[c] = WrapWeight(samp_args.cell[1], samp_args.x)

\* a call at x = width - 0.5 that weights the first column by a half
C12_Witness ==
    /\ samp_ret.called
    /\ samp_args.x = TexW * SUB - SUB \div 2
    /\ samp_args.cell[1] = 0
    /\ 2 * samp_ret.column_scalar = SUB2
    /\ samp_ret.scalar_shifted = samp_ret.scalar

---------------------------------------------------------------------------
\* Claims about the construction of the renderer (checked under SpecConfig)

\* C16: a GlobeRenderer with a non-positive radius is never constructed:
\* the constructor does not return a renderer for it.
C16_BadRadiusRejected ==
    radius <= 0 => gpc # "ready"

---------------------------------------------------------------------------
\* Claims about fractal_noise (checked under SpecNoise)

\* C17: every call of fractal_noise with the same (width, height, octaves,
\* persistence, seed) returns the field the first call returned, whatever
\* the state of the global random module and whatever drew from it or
\* seeded it in between.
C17_NoiseIsDeterministic ==
    noise_calls >= 1 => noise_ret = noise_first

\* a second call returned a field with random values in it after the
\* global random module had moved on from where the first call found it
C17_Witness ==
    /\ noise_calls >= 2
    /\ global_rng # first_global
    /\ noise_args.octaves >= 1
    /\ \E c \in DOMAIN noise_ret.field : noise_ret.field[c] > 0
    /\ noise_ret = noise_first

\* C18: every value of the field fractal_noise returns lies in [0, 1], and
\* when the total amplitude is zero (no octave) the function returns the
\* zero field without dividing.
C18_NoiseInUnitInterval ==
    noise_ret.called =>
        /\ \A c \in DOMAIN noise_ret.field :
              noise_ret.field[c] \in 0..(255 * ONE)
        /\ noise_args.octaves = 0 =>
              /\ ~noise_ret.divided
              /\ \A c \in DOMAIN noise_ret.field : noise_ret.field[c] = 0

\* a call with two octaves or more and a positive persistence returned a
\* field that was divided by the total amplitude
C18_Witness ==
    /\ noise_ret.called
    /\ noise_args.octaves >= 2
    /\ noise_args.persistence > 0
    /\ noise_ret.divided
    /\ \E c \in DOMAIN noise_ret.field : noise_ret.field[c] > 128 * ONE

---------------------------------------------------------------------------
\* Claims about the shading branches of render() (checked under SpecRender)

\* line 512: the land-mask sample at the entry's map position is above 0.1
IsLand(entry, a) ==
    sample_scalar(maps.land_alpha, TexW, TexH,
                  MapX(entry, a[1], TexW), MapY(entry, TexH)) * 10 > SUB2

\* lines 500-502, 519: the sunlight on the entry's normal
SunlightOn(entry, a) == Sunlight(entry.normal, SunDir(a[1], a[2]))

\* C20: in the per-pixel pass the specular term is added to a pixel only if
\* its land-mask sample is at most 0.1 and its sunlight is above 0, and the
\* city-light glow only if its land-mask sample is above 0.1 and its
\* sunlight is below 0.
C20_SpecularAndGlowConditions ==
    gpc \in {"shaded", "atmosphere", "returned"} =>
        \A i \in 1..Len(pixel_data) :
            LET entry == pixel_data[i]
                pixel == globe_surface[<<entry.px, entry.py>>]
            IN  /\ "specular" \in pixel.terms =>
                      ~IsLand(entry, render_args) /\ SunlightOn(entry, render_args) > 0
                /\ "city_glow" \in pixel.terms =>
                      IsLand(entry, render_args) /\ SunlightOn(entry, render_args) < 0

\* a shaded surface with a lit ocean pixel that got the specular term, a
\* lit land pixel that did not, and a dark land pixel that got the glow
C20_Witness ==
    /\ gpc = "shaded"
    /\ \E i \in 1..Len(pixel_data) :
          /\ "specular" \in globe_surface[<<pixel_data[i].px, pixel_data[i].py>>].terms
          /\ ~IsLand(pixel_data[i], render_args)
    /\ \E i \in 1..Len(pixel_data) :
          /\ IsLand(pixel_data[i], render_args)
          /\ SunlightOn(pixel_data[i], render_args) > 0
          /\ "specular" \notin globe_surface[<<pixel_data[i].px, pixel_data[i].py>>].terms
    /\ \E i \in 1..Len(pixel_data) :
          /\ "city_glow" \in globe_surface[<<pixel_data[i].px, pixel_data[i].py>>].terms
          /\ SunlightOn(pixel_data[i], render_args) < 0

====
